---------------------------- MODULE Spec2Model ----------------------------
(***************************************************************************)
(* The content-addressed download cache of rds (rds/modules/common.py):    *)
(* download_with_md5 (the verified fetcher) and download_from_cache (the   *)
(* cache manager), run by several processes that share one cache root and  *)
(* all ask for the same expected_md5.  Every filesystem system call of a   *)
(* process is one atomic step; the steps of different processes interleave *)
(* freely, since the code takes no lock.                                   *)
(***************************************************************************)
EXTENDS Integers, Sequences, FiniteSets, TLC

\* Number of processes; each makes one top-level call
\* download_from_cache(url, expected_md5, output_folder, readonly=readonly[p],
\* skipcheck=skipcheck[p]) into an output folder of its own.
NumProcs == 2
\* Number of chunks response.iter_content yields for one response body.
BodyLen == 2

\* Retry(total=3): the retries the adapter of a session may make.
RetryTotal == 3

Procs == 1..NumProcs
\* Filenames the server's content-disposition can name.
Names == {"a", "b"}
\* The Python None of maybe_cached_file and of a call that returned nothing.
None == "-"

-----------------------------------------------------------------------------
(* hashlib.md5: an incremental digest.  A chunk is a number in 0..2 (0 is  *)
(* the byte of a hole left by a write past the end of a truncated file);   *)
(* the digest is injective on the contents the model can produce.          *)

MD5Init == 0

MD5Update(h, chunk) == 4 * h + chunk + 1

RECURSIVE MD5Fold(_, _)
MD5Fold(h, data) ==
    IF data = <<>> THEN h ELSE MD5Fold(MD5Update(h, Head(data)), Tail(data))

\* hashlib.file_digest(fp, "md5").hexdigest() of a file's content
FileDigest(data) == MD5Fold(MD5Init, data)

\* The content the expected checksum was computed from, and a body that
\* differs from it in its last chunk.
Good == [i \in 1..BodyLen |-> 1]
Bad == [i \in 1..BodyLen |-> IF i = BodyLen THEN 2 ELSE 1]
Bodies == {Good, Bad}

expected_md5 == FileDigest(Good)

-----------------------------------------------------------------------------
(* Files.  A directory maps every name to a file record; present = FALSE   *)
(* is a name with no directory entry.  usable is the code's                *)
(* child.exists() and child.is_file() and os.access(child, os.R_OK).       *)

NoFile == [present |-> FALSE, usable |-> FALSE, data |-> <<>>]
File(d) == [present |-> TRUE, usable |-> TRUE, data |-> d]
Unusable(d) == [present |-> TRUE, usable |-> FALSE, data |-> d]
EmptyDir == [n \in Names |-> NoFile]

\* The cache configurations a run can start from.  mode is what os.access
\* grants on the entry directory: "rwx", "rx" (listable, not writable) or
\* "none".
Seeds ==
    { [id |-> "cold",        parentW |-> TRUE,  root |-> FALSE, rootW |-> FALSE,
       cont |-> FALSE, mode |-> "none", files |-> EmptyDir],
      [id |-> "cold_ro",     parentW |-> FALSE, root |-> FALSE, rootW |-> FALSE,
       cont |-> FALSE, mode |-> "none", files |-> EmptyDir],
      [id |-> "root",        parentW |-> TRUE,  root |-> TRUE,  rootW |-> TRUE,
       cont |-> FALSE, mode |-> "none", files |-> EmptyDir],
      [id |-> "root_ro",     parentW |-> TRUE,  root |-> TRUE,  rootW |-> FALSE,
       cont |-> FALSE, mode |-> "none", files |-> EmptyDir],
      [id |-> "empty",       parentW |-> TRUE,  root |-> TRUE,  rootW |-> TRUE,
       cont |-> TRUE,  mode |-> "rwx",  files |-> EmptyDir],
      [id |-> "empty_ro",    parentW |-> TRUE,  root |-> TRUE,  rootW |-> TRUE,
       cont |-> TRUE,  mode |-> "rx",   files |-> EmptyDir],
      [id |-> "valid",       parentW |-> TRUE,  root |-> TRUE,  rootW |-> TRUE,
       cont |-> TRUE,  mode |-> "rwx",
       files |-> [EmptyDir EXCEPT !["a"] = File(Good)]],
      [id |-> "valid_ro",    parentW |-> TRUE,  root |-> TRUE,  rootW |-> TRUE,
       cont |-> TRUE,  mode |-> "rx",
       files |-> [EmptyDir EXCEPT !["a"] = File(Good)]],
      [id |-> "unlistable",  parentW |-> TRUE,  root |-> TRUE,  rootW |-> TRUE,
       cont |-> TRUE,  mode |-> "none",
       files |-> [EmptyDir EXCEPT !["a"] = File(Good)]],
      [id |-> "mismatch",    parentW |-> TRUE,  root |-> TRUE,  rootW |-> TRUE,
       cont |-> TRUE,  mode |-> "rwx",
       files |-> [EmptyDir EXCEPT !["a"] = File(Bad)]],
      [id |-> "unreadable",  parentW |-> TRUE,  root |-> TRUE,  rootW |-> TRUE,
       cont |-> TRUE,  mode |-> "rwx",
       files |-> [EmptyDir EXCEPT !["a"] = Unusable(Good)]],
      [id |-> "two",         parentW |-> TRUE,  root |-> TRUE,  rootW |-> TRUE,
       cont |-> TRUE,  mode |-> "rwx",
       files |-> [EmptyDir EXCEPT !["a"] = File(Good), !["b"] = File(Good)]],
      [id |-> "two_mixed",   parentW |-> TRUE,  root |-> TRUE,  rootW |-> TRUE,
       cont |-> TRUE,  mode |-> "rwx",
       files |-> [EmptyDir EXCEPT !["a"] = Unusable(Good),
                                  !["b"] = File(Good)]] }

-----------------------------------------------------------------------------
VARIABLES
    seed,        \* id of the configuration the run started from (never changes)
    parentW,     \* cache_path.parent grants W|R|X and is not mounted read-only
    rootExists,  \* cache_path exists
    rootW,       \* cache_path grants W|R|X and is not mounted read-only
    contExists,  \* cache_container exists
    contMode,    \* what os.access grants on cache_container
    cache,       \* the files of cache_container
    out,         \* out[p]: the files of process p's output_folder
    pc,          \* pc[p]: where process p is in download_from_cache; a call
                 \* begins at "probe" (line 157) and ends at "done"
    readonly,    \* readonly[p]: the flag of p's top-level call
    skipcheck,   \* skipcheck[p]: the flag of p's top-level call, "True" or
                 \* "False"; "unread" until line 189 reads it (a call that
                 \* never reads it runs alike for both values)
    nested,      \* nested[p]: p is inside the re-entrant call of line 257
    abort_caching, \* abort_caching[p] of p's current call frame
    maybe_cached_file, \* maybe_cached_file[p] of p's current call frame
    dl,          \* dl[p]: p's download_with_md5 invocation
    result,      \* result[p]: "ok", or the exception p's top-level call
                 \* ended with
    ret,         \* ret[p]: the filename p's top-level call returned
    seen,        \* seen[p]: what the entry directory held when p last
                 \* probed it
    retry        \* retry[p]: the retries the Retry object of p's session has
                 \* left (its total)

fsVars == <<parentW, rootExists, rootW, contExists, contMode>>
callVars == <<readonly, skipcheck>>
vars == <<seed, parentW, rootExists, rootW, contExists, contMode, cache, out,
          pc, readonly, skipcheck, nested, abort_caching, maybe_cached_file,
          dl, result, ret, seen, retry>>

NoDl == [started |-> FALSE, name |-> None, body |-> <<>>, dest |-> None,
         pos |-> 0, md5 |-> MD5Init]
\* seen[p].state: "unprobed", "absent", "unlistable" or "listed"; count is the
\* number of directory entries listed, usable whether the loop left a
\* candidate, mismatch whether that candidate held, at that instant, content
\* whose digest is not expected_md5; digest is how hexdigest_of_cached_file,
\* once computed at line 193, compared with expected_md5: "none", "equal" or
\* "differs".
NotSeen == [state |-> "unprobed", count |-> 0, usable |-> FALSE,
            mismatch |-> FALSE, digest |-> "none"]

Init ==
    /\ \E s \in Seeds :
          /\ seed = s.id
          /\ parentW = s.parentW
          /\ rootExists = s.root
          /\ rootW = s.rootW
          /\ contExists = s.cont
          /\ contMode = s.mode
          /\ cache = s.files
    /\ out = [p \in Procs |-> EmptyDir]
    /\ pc = [p \in Procs |-> "probe"]
    /\ readonly \in [Procs -> BOOLEAN]
    /\ skipcheck = [p \in Procs |-> "unread"]
    /\ nested = [p \in Procs |-> FALSE]
    /\ abort_caching = [p \in Procs |-> FALSE]
    /\ maybe_cached_file = [p \in Procs |-> None]
    /\ dl = [p \in Procs |-> NoDl]
    /\ result = [p \in Procs |-> None]
    /\ ret = [p \in Procs |-> None]
    /\ seen = [p \in Procs |-> NotSeen]
    /\ retry = [p \in Procs |-> RetryTotal]

-----------------------------------------------------------------------------
(* Helpers of the call frames.                                             *)

\* A re-entrant call made without readonly=True.
IsReadonlyCallerOnly(p) == readonly[p]

\* A frame that forgets the caller's readonly flag.
IsReadonlyNestedOnly(p) == nested[p]

\* The readonly argument of p's current frame: the caller's flag, or True in
\* the re-entrant call (line 258).
IsReadonly(p) == nested[p] \/ readonly[p]

\* The values the skipcheck argument of p's current frame can have: either
\* for a caller, False in the re-entrant call (line 258).
SkipcheckArgs(p) == IF nested[p] THEN {"False"} ELSE {"True", "False"}

\* All enumeration orders of a directory's entries (iterdir promises none).
Present == {n \in Names : cache[n].present}
Orders(S) ==
    {o \in [1..Cardinality(S) -> S] :
        \A i, j \in DOMAIN o : i # j => o[i] # o[j]}

\* A loop that keeps the first usable child and never looks at the others.
RECURSIVE IterChildrenFirstOnly(_, _)
IterChildrenFirstOnly(children, maybe) ==
    IF children = <<>> THEN [cand |-> maybe, abort |-> FALSE]
    ELSE IF cache[Head(children)].usable
         THEN [cand |-> Head(children), abort |-> FALSE]
         ELSE [cand |-> maybe, abort |-> TRUE]

\* A loop that takes an empty listing for a broken entry.
IterChildrenEmptyAborts(children, maybe) ==
    IF Len(children) = 1 /\ cache[Head(children)].usable
    THEN [cand |-> Head(children), abort |-> FALSE]
    ELSE [cand |-> None, abort |-> TRUE]

\* The loop of lines 162-182 over the listed children, from the value
\* maybe_cached_file has so far: the candidate it leaves and whether it set
\* abort_caching.
RECURSIVE IterChildren(_, _)
IterChildren(children, maybe) ==
    IF children = <<>> THEN [cand |-> maybe, abort |-> FALSE]
    ELSE IF maybe # None THEN [cand |-> None, abort |-> TRUE]
    ELSE IF cache[Head(children)].usable
         THEN IterChildren(Tail(children), Head(children))
         ELSE [cand |-> maybe, abort |-> TRUE]

\* A frame that never computes the digest of its candidate.
ChecksDigestNever(s) == FALSE

\* Line 189: whether the frame, called with skipcheck = s, computes the
\* digest of the candidate the loop left.
ChecksDigest(s) == s # "True"

\* A comparison that accepts every digest.
DigestRejectsNever(hexdigest) == FALSE

\* Line 196: the comparison that discards the candidate.
DigestRejects(hexdigest) == hexdigest # expected_md5

\* A fetcher that compares nothing and returns the filename.
Md5MismatchNever(actual) == FALSE

\* Line 133: the comparison that raises ValueError.
Md5Mismatch(actual) == actual # expected_md5

\* A call that downloads into the cache entry whatever abort_caching says.
DownloadDestAlwaysCache(abort) == "cache"

\* Lines 251-263: where download_with_md5 is told to write.
DownloadDest(abort) == IF abort THEN "out" ELSE "cache"

\* A copy that creates the destination and copies no bytes.
CopyDataNothing(src) == <<>>

\* copy_file: the bytes the destination receives from the source file.
CopyData(src) == src.data

\* A write that always lands at the start of the file.
WriteAtStart(data, pos, chunk) ==
    [i \in 1..(IF Len(data) > 1 THEN Len(data) ELSE 1) |->
        IF i = 1 THEN chunk ELSE data[i]]

\* f.write(chunk) at the writer's own file offset pos: a write past the end
\* of a file another process truncated leaves a hole of zero bytes.
WriteAt(data, pos, chunk) ==
    [i \in 1..(IF Len(data) > pos + 1 THEN Len(data) ELSE pos + 1) |->
        IF i = pos + 1 THEN chunk ELSE IF i <= Len(data) THEN data[i] ELSE 0]

\* What session.get can answer: an error status (raise_for_status; in Spec
\* also the ConnectionError of exhausted retries, which GetFails details), or
\* a body under a filename.
Responses ==
    {[status |-> 500, name |-> None, body |-> <<>>]} \cup
    {[status |-> 200, name |-> n, body |-> b] : n \in Names, b \in Bodies}

\* A call that answers a failure by going back to get the file again.
RaiseFallsBack(p, err) ==
    /\ pc' = [pc EXCEPT ![p] = "fetch"]
    /\ UNCHANGED <<result, ret>>

\* p's top-level call ends with exception err.
Raise(p, err) ==
    /\ pc' = [pc EXCEPT ![p] = "done"]
    /\ result' = [result EXCEPT ![p] = err]
    /\ UNCHANGED ret

\* p's top-level call returns filename.
Return(p, filename) ==
    /\ pc' = [pc EXCEPT ![p] = "done"]
    /\ result' = [result EXCEPT ![p] = "ok"]
    /\ ret' = [ret EXCEPT ![p] = filename]

\* A frame that loses the abort_caching the probe set.
NoCachedFileForgetsAbort(p, abort) ==
    /\ abort_caching' = [abort_caching EXCEPT ![p] = FALSE]
    /\ IF IsReadonly(p)
       THEN Raise(p, "RuntimeError")
       ELSE /\ pc' = [pc EXCEPT ![p] = "root_check"]
            /\ UNCHANGED <<result, ret>>

\* Lines 210-218, reached with abort_caching = abort and no cached file
\* returned: raise when readonly, else go and get the file.  With
\* abort_caching set the guards of lines 219, 231 and 243 are all false and
\* the call reaches line 263.
NoCachedFile(p, abort) ==
    /\ abort_caching' = [abort_caching EXCEPT ![p] = abort]
    /\ IF IsReadonly(p)
       THEN Raise(p, "RuntimeError")
       ELSE /\ pc' = [pc EXCEPT ![p] = IF abort THEN "fetch" ELSE "root_check"]
            /\ UNCHANGED <<result, ret>>

-----------------------------------------------------------------------------
(* The steps of download_from_cache.                                       *)

\* Lines 157-188: exists(), os.access, iterdir and the loop over the children.
Probe(p) ==
    /\ pc[p] = "probe"
    /\ IF ~contExists
       THEN /\ seen' = [seen EXCEPT ![p] = [NotSeen EXCEPT !.state = "absent"]]
            /\ NoCachedFile(p, abort_caching[p])
            /\ UNCHANGED <<maybe_cached_file, skipcheck>>
       ELSE IF contMode = "none"
       THEN /\ seen' = [seen EXCEPT ![p] =
                  [NotSeen EXCEPT !.state = "unlistable"]]
            /\ NoCachedFile(p, TRUE)
            /\ UNCHANGED <<maybe_cached_file, skipcheck>>
       ELSE \E children \in Orders(Present) :
               LET r == IterChildren(children, None) IN
               /\ seen' = [seen EXCEPT ![p] =
                     [state |-> "listed", count |-> Len(children),
                      usable |-> r.cand # None, digest |-> "none",
                      mismatch |-> r.cand # None /\
                          FileDigest(cache[r.cand].data) # expected_md5]]
               /\ maybe_cached_file' = [maybe_cached_file EXCEPT ![p] = r.cand]
               /\ IF r.cand = None
                  THEN /\ NoCachedFile(p, r.abort)
                       /\ UNCHANGED skipcheck
                  ELSE \E s \in SkipcheckArgs(p) :
                       /\ skipcheck' = [skipcheck EXCEPT ![p] =
                              IF nested[p] THEN @ ELSE s]
                       /\ pc' = [pc EXCEPT ![p] =
                              IF ChecksDigest(s) THEN "digest" ELSE "copy"]
                       /\ UNCHANGED <<abort_caching, result, ret>>
    /\ UNCHANGED <<retry, seed, fsVars, cache, out, readonly, nested, dl>>

\* Lines 189-201: the digest of the candidate as the file is at this instant.
Digest(p) ==
    /\ pc[p] = "digest"
    /\ LET hexdigest_of_cached_file ==
               FileDigest(cache[maybe_cached_file[p]].data)
       IN
       /\ seen' = [seen EXCEPT ![p].digest =
             IF hexdigest_of_cached_file = expected_md5 THEN "equal"
             ELSE "differs"]
       /\ IF DigestRejects(hexdigest_of_cached_file)
          THEN /\ maybe_cached_file' = [maybe_cached_file EXCEPT ![p] = None]
               /\ NoCachedFile(p, TRUE)
          ELSE /\ pc' = [pc EXCEPT ![p] = "copy"]
               /\ UNCHANGED <<maybe_cached_file, abort_caching, result, ret>>
    /\ UNCHANGED <<retry, seed, fsVars, cache, out, callVars, nested, dl>>

\* Lines 202-208: copy_file of the candidate as it is at this instant, and the
\* return; in the re-entrant call, the assertion and return of lines 260-261.
Copy(p) ==
    /\ pc[p] = "copy"
    /\ LET filename == maybe_cached_file[p] IN
       /\ out' = [out EXCEPT ![p][filename] = File(CopyData(cache[filename]))]
       /\ IF nested[p] /\ dl[p].name # filename
          THEN Raise(p, "AssertionError")
          ELSE Return(p, IF nested[p] THEN dl[p].name ELSE filename)
    /\ UNCHANGED <<retry, seed, fsVars, cache, callVars, nested, abort_caching,
                   maybe_cached_file, dl, seen>>

\* Lines 219-223 and 225-230: whether the cache root is missing and may be made.
RootCheck(p) ==
    /\ pc[p] = "root_check"
    /\ IF ~rootExists /\ ~abort_caching[p]
       THEN IF parentW
            THEN /\ pc' = [pc EXCEPT ![p] = "root_mkdir"]
                 /\ UNCHANGED abort_caching
            ELSE /\ pc' = [pc EXCEPT ![p] = "cont_check"]
                 /\ abort_caching' = [abort_caching EXCEPT ![p] = TRUE]
       ELSE /\ pc' = [pc EXCEPT ![p] = "cont_check"]
            /\ UNCHANGED abort_caching
    /\ UNCHANGED <<retry, seed, fsVars, cache, out, callVars, nested,
                   maybe_cached_file, dl, result, ret, seen>>

\* Line 224: cache_path.mkdir(), which raises FileExistsError on a directory
\* that another process made since line 219.
RootMkdir(p) ==
    /\ pc[p] = "root_mkdir"
    /\ IF rootExists
       THEN /\ Raise(p, "FileExistsError")
            /\ UNCHANGED <<rootExists, rootW>>
       ELSE /\ rootExists' = TRUE
            /\ rootW' = TRUE
            /\ pc' = [pc EXCEPT ![p] = "cont_check"]
            /\ UNCHANGED <<result, ret>>
    /\ UNCHANGED <<retry, seed, parentW, contExists, contMode, cache, out,
                   callVars, nested, abort_caching, maybe_cached_file, dl, seen>>

\* Lines 231-235 and 237-242: whether the entry directory is missing and may
\* be made.
ContCheck(p) ==
    /\ pc[p] = "cont_check"
    /\ IF ~contExists /\ ~abort_caching[p]
       THEN IF rootExists /\ rootW
            THEN /\ pc' = [pc EXCEPT ![p] = "cont_mkdir"]
                 /\ UNCHANGED abort_caching
            ELSE /\ pc' = [pc EXCEPT ![p] = "fetch"]
                 /\ abort_caching' = [abort_caching EXCEPT ![p] = TRUE]
       ELSE /\ pc' = [pc EXCEPT ![p] = "fetch"]
            /\ UNCHANGED abort_caching
    /\ UNCHANGED <<retry, seed, fsVars, cache, out, callVars, nested,
                   maybe_cached_file, dl, result, ret, seen>>

\* Line 236: cache_container.mkdir(), which raises FileExistsError on a
\* directory that another process made since line 231.
ContMkdir(p) ==
    /\ pc[p] = "cont_mkdir"
    /\ IF contExists
       THEN /\ Raise(p, "FileExistsError")
            /\ UNCHANGED <<contExists, contMode>>
       ELSE /\ contExists' = TRUE
            /\ contMode' = "rwx"
            /\ pc' = [pc EXCEPT ![p] = "fetch"]
            /\ UNCHANGED <<result, ret>>
    /\ UNCHANGED <<retry, seed, parentW, rootExists, rootW, cache, out,
                   callVars, nested, abort_caching, maybe_cached_file, dl, seen>>

\* Lines 243-249, the choice of lines 251/262, and download_with_md5 up to
\* line 126: the final permission check, the request and its answer, and
\* open(output_path, "wb"), which creates the file or truncates it.  All that
\* precedes the open reads nothing another process can change.  A download
\* into output_folder, which no other process reads or writes, runs to its
\* end (line 135) in this step.
Fetch(p) ==
    /\ pc[p] = "fetch"
    /\ LET abort == abort_caching[p] \/ ~(contExists /\ contMode = "rwx")
           dest == DownloadDest(abort)
       IN
       /\ abort_caching' = [abort_caching EXCEPT ![p] = abort]
       /\ \E resp \in Responses :
             LET d == [started |-> TRUE, name |-> resp.name, body |-> resp.body,
                       dest |-> dest, pos |-> 0, md5 |-> MD5Init]
                 f == IF dest = "cache" THEN cache[resp.name]
                      ELSE out[p][resp.name]
             IN
             IF resp.status # 200
             THEN /\ dl' = [dl EXCEPT ![p] = d]
                  /\ Raise(p, "HTTPError")
                  /\ UNCHANGED <<cache, out>>
             ELSE IF f.present /\ ~f.usable
             THEN /\ dl' = [dl EXCEPT ![p] = d]
                  /\ Raise(p, "OSError")
                  /\ UNCHANGED <<cache, out>>
             ELSE IF dest = "cache"
             THEN /\ dl' = [dl EXCEPT ![p] = d]
                  /\ cache' = [cache EXCEPT ![resp.name] = File(<<>>)]
                  /\ pc' = [pc EXCEPT ![p] = "write"]
                  /\ UNCHANGED <<out, result, ret>>
             ELSE LET actual_md5 == MD5Fold(MD5Init, resp.body) IN
                  /\ dl' = [dl EXCEPT ![p] =
                        [d EXCEPT !.pos = Len(resp.body), !.md5 = actual_md5]]
                  /\ out' = [out EXCEPT ![p][resp.name] = File(resp.body)]
                  /\ IF Md5Mismatch(actual_md5)
                     THEN Raise(p, "ValueError")
                     ELSE Return(p, resp.name)
                  /\ UNCHANGED cache
    /\ UNCHANGED <<retry, seed, fsVars, callVars, nested, maybe_cached_file,
                   seen>>

\* Lines 127-135 and 256-257 of a download into the cache entry: one chunk is
\* hashed and written; after the last one the digests are compared, and the
\* call raises or re-enters download_from_cache(readonly=True,
\* skipcheck=False).
Write(p) ==
    /\ pc[p] = "write"
    /\ LET d == dl[p]
           chunk == d.body[d.pos + 1]
           actual_md5 == MD5Update(d.md5, chunk)
       IN
       /\ dl' = [dl EXCEPT ![p].pos = d.pos + 1, ![p].md5 = actual_md5]
       /\ cache' = [cache EXCEPT ![d.name].data = WriteAt(@, d.pos, chunk)]
       /\ IF d.pos + 1 < Len(d.body)
          THEN UNCHANGED <<pc, result, ret, nested>>
          ELSE IF Md5Mismatch(actual_md5)
          THEN Raise(p, "ValueError") /\ UNCHANGED nested
          ELSE /\ nested' = [nested EXCEPT ![p] = TRUE]
               /\ pc' = [pc EXCEPT ![p] = "probe"]
               /\ UNCHANGED <<result, ret>>
    /\ UNCHANGED <<retry, seed, fsVars, out, callVars, abort_caching,
                   maybe_cached_file, seen>>

Step(p) ==
    \/ Probe(p)
    \/ Digest(p)
    \/ Copy(p)
    \/ RootCheck(p)
    \/ RootMkdir(p)
    \/ ContCheck(p)
    \/ ContMkdir(p)
    \/ Fetch(p)
    \/ Write(p)

Next == \E p \in Procs : Step(p)

Spec == Init /\ [][Next]_vars

\* Calls made one after another: a process steps only while no other call is
\* in progress.
NextSeq ==
    \E p \in Procs :
        /\ \A q \in Procs \ {p} : pc[q] = "done" \/ seen[q] = NotSeen
        /\ Step(p)

SpecSeq == Init /\ [][NextSeq]_vars

-----------------------------------------------------------------------------
(* download_with_md5 step by step, with the failures of the network: the   *)
(* call of line 263, each process downloading into its own output folder   *)
(* from a machine where no cache can be made.                              *)

InitFetch ==
    /\ \E s \in Seeds :
          /\ s.id = "cold_ro"
          /\ seed = s.id
          /\ parentW = s.parentW
          /\ rootExists = s.root
          /\ rootW = s.rootW
          /\ contExists = s.cont
          /\ contMode = s.mode
          /\ cache = s.files
    /\ out = [p \in Procs |-> EmptyDir]
    /\ pc = [p \in Procs |-> "get"]
    /\ readonly = [p \in Procs |-> FALSE]
    /\ skipcheck = [p \in Procs |-> "unread"]
    /\ nested = [p \in Procs |-> FALSE]
    /\ abort_caching = [p \in Procs |-> TRUE]
    /\ maybe_cached_file = [p \in Procs |-> None]
    /\ dl = [p \in Procs |-> NoDl]
    /\ result = [p \in Procs |-> None]
    /\ ret = [p \in Procs |-> None]
    /\ seen = [p \in Procs |-> [NotSeen EXCEPT !.state = "absent"]]
    /\ retry = [p \in Procs |-> RetryTotal]

fetchFrame == <<seed, fsVars, cache, callVars, nested, abort_caching,
                maybe_cached_file, seen>>

\* Line 120, an attempt of session.get that fails to connect or to get the
\* response's headers: the adapter (lines 113-116) sleeps and tries again
\* while the Retry object has retries left, and raises ConnectionError once
\* it has none.
GetFails(p) ==
    /\ pc[p] = "get"
    /\ IF retry[p] > 0
       THEN /\ retry' = [retry EXCEPT ![p] = @ - 1]
            /\ UNCHANGED <<pc, result, ret>>
       ELSE /\ Raise(p, "ConnectionError")
            /\ UNCHANGED retry
    /\ UNCHANGED <<fetchFrame, out, dl>>

\* Lines 120-126, an attempt of session.get that is answered:
\* raise_for_status, the filename, and open(output_path, "wb").
GetAnswers(p) ==
    /\ pc[p] = "get"
    /\ \E resp \in Responses :
          /\ dl' = [dl EXCEPT ![p] =
                [started |-> TRUE, name |-> resp.name, body |-> resp.body,
                 dest |-> DownloadDest(abort_caching[p]), pos |-> 0,
                 md5 |-> MD5Init]]
          /\ IF resp.status # 200
             THEN /\ Raise(p, "HTTPError")
                  /\ UNCHANGED out
             ELSE /\ out' = [out EXCEPT ![p][resp.name] = File(<<>>)]
                  /\ pc' = [pc EXCEPT ![p] = "stream"]
                  /\ UNCHANGED <<result, ret>>
    /\ UNCHANGED <<fetchFrame, retry>>

\* Lines 127-135: one chunk of response.iter_content is hashed and written;
\* after the last one the digests are compared.
Stream(p) ==
    /\ pc[p] = "stream"
    /\ LET d == dl[p]
           chunk == d.body[d.pos + 1]
           actual_md5 == MD5Update(d.md5, chunk)
       IN
       /\ dl' = [dl EXCEPT ![p].pos = d.pos + 1, ![p].md5 = actual_md5]
       /\ out' = [out EXCEPT ![p][d.name].data = WriteAt(@, d.pos, chunk)]
       /\ IF d.pos + 1 < Len(d.body)
          THEN UNCHANGED <<pc, result, ret>>
          ELSE IF Md5Mismatch(actual_md5)
          THEN Raise(p, "ValueError")
          ELSE Return(p, dl[p].name)
    /\ UNCHANGED <<fetchFrame, retry>>

\* Line 127, the connection failing while the body is read: iter_content
\* raises (ChunkedEncodingError or ConnectionError) out of the loop; no
\* handler and no loop around lines 120-130 catches it, and the adapter's
\* Retry covers session.get alone.  The file stays as far as it was written.
StreamFails(p) ==
    /\ pc[p] = "stream"
    /\ Raise(p, "ChunkedEncodingError")
    /\ UNCHANGED <<fetchFrame, retry, out, dl>>

\* The calls share no file, so their interleavings add nothing: they run one
\* after another, in the order of the processes.
NextFetch ==
    \E p \in Procs :
        /\ \A q \in Procs : q < p => pc[q] = "done"
        /\ \/ GetFails(p)
           \/ GetAnswers(p)
           \/ Stream(p)
           \/ StreamFails(p)

SpecFetch == InitFetch /\ [][NextFetch]_vars

-----------------------------------------------------------------------------
(* Properties.                                                             *)

\* p's download_with_md5 streamed its whole body.
Streamed(p) ==
    dl[p].started /\ dl[p].name # None /\ dl[p].pos = Len(dl[p].body)

\* C1 (integrity invariant): whenever a download_with_md5 streamed a body
\* whose MD5 is not expected_md5, whether into the cache entry or into the
\* output folder, the call has ended with ValueError and returned no filename;
\* and a call that returned a filename after a download streamed matching bytes.
C1_IntegrityInvariant ==
    \A p \in Procs :
        /\ (Streamed(p) /\ dl[p].md5 # expected_md5) =>
              (pc[p] = "done" /\ result[p] = "ValueError" /\ ret[p] = None)
        /\ (result[p] = "ok" /\ dl[p].started) =>
              (Streamed(p) /\ FileDigest(dl[p].body) = expected_md5)

\* A download into the cache entry streamed non-matching bytes and the call
\* failed with ValueError.
C1_Witness ==
    \E p \in Procs :
        /\ Streamed(p) /\ dl[p].dest = "cache" /\ dl[p].md5 # expected_md5
        /\ result[p] = "ValueError"

\* The file p's call reported: output_folder/filename.
Delivered(p) == out[p][ret[p]]

\* C2 (delivered-artifact invariant): whenever a call has returned a filename,
\* output_folder/filename exists and its content has MD5 expected_md5.
C2_DeliveredArtifactVerified ==
    \A p \in Procs :
        result[p] = "ok" =>
            /\ Delivered(p).present
            /\ FileDigest(Delivered(p).data) = expected_md5

\* The probe and the digest of p's top-level frame found no usable entry: the
\* entry directory was absent, unlistable, empty, held more than one entry or
\* one unusable file, or held one file whose digest, computed by the call,
\* was not expected_md5.
NoUsableEntry(p) ==
    \/ seen[p].state \in {"absent", "unlistable"}
    \/ seen[p].state = "listed" /\ ~seen[p].usable
    \/ seen[p].digest = "differs"

ValidEntry ==
    \E n \in Names :
        /\ Present = {n}
        /\ cache[n].usable
        /\ FileDigest(cache[n].data) = expected_md5

\* p's call downloaded into the cache entry and returned.
Populated(p) == dl[p].dest = "cache" /\ result[p] = "ok"

\* p's top-level probe listed exactly one usable file holding matching content.
ProbedValid(p) ==
    /\ ~nested[p]
    /\ seen[p].state = "listed" /\ seen[p].count = 1
    /\ seen[p].usable /\ ~seen[p].mismatch

\* C4 (cache correctness), for calls made one after another: a call that finds
\* a valid entry returns a filename, performs no download_with_md5 and leaves
\* the entry valid, and its output file is byte-identical, under the same
\* filename, to what any call that populated the entry downloaded.
C4_CacheCorrectness ==
    \A q \in Procs :
        (ProbedValid(q) /\ pc[q] = "done") =>
            /\ result[q] = "ok"
            /\ ~dl[q].started
            /\ ValidEntry
            /\ Present = {ret[q]}
            /\ Delivered(q) = File(cache[ret[q]].data)
            /\ \A p \in Procs :
                  Populated(p) =>
                      /\ ret[q] = ret[p]
                      /\ Delivered(q).data = dl[p].body
                      /\ Delivered(q).data = Delivered(p).data

\* One call populated the entry and another was then served from it.
C4_Witness ==
    \E p, q \in Procs :
        /\ p # q /\ Populated(p)
        /\ ProbedValid(q) /\ result[q] = "ok" /\ ~dl[q].started
        /\ Delivered(q).data = dl[p].body

\* The files of p's output folder are those its own uncached download wrote.
OnlyOwnDownload(p) ==
    \A n \in Names :
        out[p][n].present =>
            /\ dl[p].started /\ dl[p].dest = "out" /\ dl[p].name = n
            /\ out[p][n].data = dl[p].body

\* C5 (corruption backstop): a frame that listed two or more entries never
\* digests or copies a cached file: with readonly it ends with RuntimeError
\* and an empty output folder, without it the call goes to an uncached
\* download_with_md5 into output_folder, the only source of its output.
C5_CorruptionBackstop ==
    \A p \in Procs :
        (seen[p].state = "listed" /\ seen[p].count >= 2) =>
            /\ maybe_cached_file[p] = None
            /\ skipcheck[p] = "unread" \/ nested[p]
            /\ IF IsReadonly(p)
               THEN /\ pc[p] = "done" /\ result[p] = "RuntimeError"
                    /\ out[p] = EmptyDir
               ELSE /\ pc[p] \in {"fetch", "done"}
                    /\ abort_caching[p]
                    /\ OnlyOwnDownload(p)
                    /\ pc[p] = "done" =>
                          /\ dl[p].dest = "out"
                          /\ result[p] \in {"ok", "ValueError", "HTTPError"}

\* A call without readonly listed two entries and returned its own download.
C5_Witness ==
    \E p \in Procs :
        /\ seen[p].state = "listed" /\ seen[p].count >= 2 /\ ~IsReadonly(p)
        /\ result[p] = "ok" /\ Delivered(p) = File(dl[p].body)

\* Every call is made with readonly=False and reads no skipcheck=True.
AllPopulating ==
    \A q \in Procs : ~readonly[q] /\ skipcheck[q] # "True"

\* Every answer the source has given is the matching content.
ServedMatching ==
    \A q \in Procs : dl[q].started => (dl[q].name # None /\ dl[q].body = Good)

\* C6 (concurrent population delivers to everyone): when all calls are made
\* with readonly=False, skipcheck=False for an expected_md5 with no entry
\* directory yet, against a source serving matching content, no call fails
\* and every call that ended left a matching artifact in its output folder.
C6_EveryoneDelivered ==
    (seed \in {"cold", "cold_ro", "root", "root_ro"}
        /\ AllPopulating /\ ServedMatching) =>
        \A p \in Procs :
            /\ result[p] \in {None, "ok"}
            /\ pc[p] = "done" =>
                  (Delivered(p).present
                      /\ FileDigest(Delivered(p).data) = expected_md5)

\* C7 (post-race convergence): after concurrent calls for an expected_md5
\* with no entry directory yet (in a cache that can be written) have all
\* ended, having been served matching content, the entry directory holds
\* exactly one file and its MD5 is expected_md5.
C7_ConvergesToOneValidFile ==
    (seed \in {"cold", "root"} /\ AllPopulating /\ ServedMatching
        /\ \A p \in Procs : pc[p] = "done") => ValidEntry

\* C8: the RuntimeError of the readonly miss reaches only callers that
\* passed readonly=True.
C8_RuntimeErrorOnlyReadonly ==
    \A p \in Procs : result[p] = "RuntimeError" => readonly[p]

C10_WriteOnce ==
    [][\A n \in Names :
          (cache[n].present /\ cache[n].usable
              /\ FileDigest(cache[n].data) = expected_md5)
          => cache'[n] = cache[n]]_vars

\* The files the entry directory held when the run started, and the files
\* that calls have created in it since.
SeedFiles == (CHOOSE s \in Seeds : s.id = seed).files
Created == {n \in Names : cache[n].present /\ ~SeedFiles[n].present}

\* p's call failed with ValueError after download_with_md5 wrote a
\* non-matching file into the entry directory, and the file is still as
\* written.
LeftMismatch(p) ==
    /\ result[p] = "ValueError" /\ dl[p].dest = "cache"
    /\ cache[dl[p].name] = File(dl[p].body)

\* C11 (mismatch never leaves a trusted entry), for calls made one after
\* another: once a call has failed with ValueError leaving its non-matching
\* download in the entry directory, a later call, whatever its readonly and
\* skipcheck, never takes that file as its candidate to copy and never
\* returns it.
C11_MismatchNeverTrusted ==
    \A p, q \in Procs :
        (LeftMismatch(p) /\ q # p /\ seen[q] # NotSeen) =>
            /\ ~(pc[q] = "copy" /\ maybe_cached_file[q] = dl[p].name)
            /\ ~(result[q] = "ok" /\ ~dl[q].started /\ ret[q] = dl[p].name)

\* C12 (side-effect bound): every call that returned left exactly one file in
\* its output folder, and the calls together have created at most one file in
\* the entry directory.
C12_SideEffectBound ==
    /\ \A p \in Procs :
          result[p] = "ok" =>
              Cardinality({n \in Names : out[p][n].present}) = 1
    /\ Cardinality(Created) <= 1

\* C13 (racing discovery of a missing entry): a call without readonly that
\* found the entry directory missing never ends with the FileExistsError of a
\* mkdir another process won, and once it has ended it has invoked
\* download_with_md5.
C13_RacersBothDownload ==
    \A p \in Procs :
        (~readonly[p] /\ seen[p].state = "absent" /\ pc[p] = "done") =>
            /\ result[p] # "FileExistsError"
            /\ dl[p].started

\* C14 (populate-then-serve assertion): the re-entrant readonly call never
\* returns a filename other than the one download_with_md5 returned: the
\* candidate it is about to copy is the downloaded file, the assertion of
\* line 260 never fails, and the call returns downloaded_file.
C14_AssertionHolds ==
    \A p \in Procs :
        /\ result[p] # "AssertionError"
        /\ (nested[p] /\ pc[p] \in {"digest", "copy"}) =>
              maybe_cached_file[p] = dl[p].name
        /\ (nested[p] /\ result[p] = "ok") =>
              (ret[p] = dl[p].name /\ ret[p] = maybe_cached_file[p])

\* A re-entrant call returned while another process was writing into the
\* same entry directory.
C14_Witness ==
    \E p, q \in Procs :
        /\ p # q
        /\ nested[p] /\ result[p] = "ok" /\ ret[p] = dl[p].name
        /\ pc[q] = "write" /\ dl[q].dest = "cache"

\* The probe of p's top-level frame marked the cache unusable: the entry
\* directory was unlistable, held more than one entry or an unusable file,
\* or held a file whose digest the call computed and found mismatching.
ProbeAborted(p) ==
    /\ ~nested[p]
    /\ \/ seen[p].state = "unlistable"
       \/ seen[p].state = "listed" /\ seen[p].count >= 1 /\ ~seen[p].usable
       \/ seen[p].digest = "differs"

\* C15 (no repair of an unusable cache): every step of a call whose probe
\* marked the cache unusable, the marking step included, leaves the cache
\* root, the entry directory and its files as they were, and leaves the call
\* with abort_caching set, on its way to (or past) a download_with_md5 that
\* writes into output_folder only.
C15_NoRepair ==
    [][\A p \in Procs :
          (ProbeAborted(p)' /\ (pc'[p] # pc[p] \/ dl'[p] # dl[p])) =>
              /\ cache' = cache
              /\ fsVars' = fsVars
              /\ abort_caching'[p]
              /\ pc'[p] \in {"fetch", "done"}
              /\ dl'[p].started => dl'[p].dest = "out"]_vars

\* A call found the entry directory unlistable, downloaded into its output
\* folder and returned, the entry directory being as it was at the start.
C15_Witness ==
    \E p \in Procs :
        /\ ProbeAborted(p) /\ seen[p].state = "unlistable"
        /\ result[p] = "ok" /\ dl[p].dest = "out"
        /\ Delivered(p) = File(dl[p].body)
        /\ cache = SeedFiles

\* p's probe found the entry directory existing, listable and empty.  (Only
\* a top-level frame can: a re-entrant frame lists the file its caller wrote.)
EmptyListed(p) == seen[p].state = "listed" /\ seen[p].count = 0

\* C16 (empty entry equals absent entry): a call that listed an empty entry
\* directory has no candidate and never reads skipcheck, digests or copies;
\* with readonly it ends with RuntimeError, nothing downloaded, nothing
\* written; without it the call never reaches a mkdir, sets abort_caching
\* only if the final check finds the directory not writable, downloads into
\* the entry directory exactly when it is writable, and after a verified
\* download re-enters the cache readonly to serve from it.
C16_EmptyLikeAbsent ==
    \A p \in Procs :
        EmptyListed(p) =>
            /\ maybe_cached_file[p] = None /\ skipcheck[p] = "unread"
            /\ IF readonly[p]
               THEN /\ pc[p] = "done" /\ result[p] = "RuntimeError"
                    /\ ~dl[p].started /\ out[p] = EmptyDir
               ELSE /\ pc[p] \in {"root_check", "cont_check", "fetch",
                                  "write", "probe", "done"}
                    /\ abort_caching[p] => (contMode # "rwx" /\ pc[p] = "done")
                    /\ dl[p].started =>
                          dl[p].dest = IF contMode = "rwx" THEN "cache"
                                       ELSE "out"
                    /\ pc[p] = "done" =>
                          (dl[p].started /\ result[p] # "RuntimeError")
                    /\ (nested[p] \/ pc[p] = "probe") =>
                          /\ nested[p] /\ pc[p] = "probe"
                          /\ Streamed(p) /\ dl[p].md5 = expected_md5
                          /\ cache[dl[p].name].present
                    /\ contExists

\* A call without readonly listed an empty, writable entry directory,
\* downloaded into it and is re-entering the cache to serve the file.
C16_Witness ==
    \E p \in Procs :
        /\ EmptyListed(p) /\ ~readonly[p] /\ seed = "empty"
        /\ nested[p] /\ pc[p] = "probe"
        /\ dl[p].dest = "cache" /\ cache[dl[p].name].present

\* C17 (scope of skipcheck): a frame reads skipcheck only once the structural
\* checks have left a candidate (the entry listed, exactly one entry, a
\* usable file), whatever its value; with skipcheck=True the candidate's
\* digest is never computed, nothing is downloaded and the call returns the
\* candidate's name with a file of that name in output_folder; with
\* skipcheck=False (the re-entrant frame included) a candidate is copied only
\* after its computed digest equalled expected_md5.
C17_SkipcheckScope ==
    \A p \in Procs :
        /\ skipcheck[p] # "unread" =>
              /\ ~nested[p]
              /\ seen[p].state = "listed" /\ seen[p].count = 1
              /\ seen[p].usable
        /\ skipcheck[p] = "True" =>
              /\ seen[p].digest = "none" /\ ~dl[p].started
              /\ pc[p] \in {"copy", "done"}
              /\ maybe_cached_file[p] # None
              /\ pc[p] = "done" =>
                    /\ result[p] = "ok" /\ ret[p] = maybe_cached_file[p]
                    /\ Delivered(p).present
        /\ (skipcheck[p] # "True" /\ pc[p] = "copy") =>
              seen[p].digest = "equal"
        /\ (skipcheck[p] # "True" /\ result[p] = "ok" /\ dl[p].dest # "out") =>
              seen[p].digest = "equal"

\* A call with skipcheck=True returned a file whose checksum mismatches,
\* without computing a digest and without a download.
C17_Witness ==
    \E p \in Procs :
        /\ skipcheck[p] = "True" /\ seen[p].mismatch
        /\ result[p] = "ok" /\ ~dl[p].started
        /\ Delivered(p).present /\ seen[p].digest = "none"

\* File n of the entry directory is the single, incompletely written file of
\* a download another process has in progress.
InProgress(n) ==
    /\ Present = {n}
    /\ Len(cache[n].data) < BodyLen
    /\ \E q \in Procs :
          pc[q] = "write" /\ dl[q].dest = "cache" /\ dl[q].name = n

\* C18 (in-progress entry is tolerated): when a call with readonly=False,
\* skipcheck=False computes the digest of a candidate that another process is
\* still writing, it discards the candidate, sets abort_caching and goes on
\* to download, writing nothing into the cache; and every later step of a
\* call that so rejected its candidate leaves the cache as it was, downloads
\* into output_folder only, and, when it returns, returns the name of a file
\* in output_folder that holds the downloaded bytes, whose MD5 is
\* expected_md5.
C18_InProgressTolerated ==
    [][\A p \in Procs :
          /\ (/\ pc[p] = "digest" /\ pc'[p] # "digest"
              /\ ~readonly[p] /\ ~nested[p]
              /\ InProgress(maybe_cached_file[p])) =>
                /\ seen'[p].digest = "differs"
                /\ maybe_cached_file'[p] = None
                /\ abort_caching'[p]
                /\ pc'[p] = "fetch"
                /\ cache' = cache
          /\ (/\ ~readonly[p] /\ ~nested'[p] /\ skipcheck'[p] = "False"
              /\ seen'[p].digest = "differs"
              /\ pc'[p] # pc[p]) =>
                /\ cache' = cache
                /\ pc'[p] \in {"fetch", "done"}
                /\ dl'[p].started => dl'[p].dest = "out"
                /\ result'[p] \in {None, "ok", "ValueError", "HTTPError"}
                /\ result'[p] = "ok" =>
                      /\ ret'[p] = dl'[p].name
                      /\ out'[p][ret'[p]] = File(dl'[p].body)
                      /\ FileDigest(out'[p][ret'[p]].data) = expected_md5]_vars

\* In a cache that started with an empty entry directory, against a source
\* that serves only matching content, a call rejected the file another
\* process was writing and returned its own uncached download.
C18_Witness ==
    \E p, q \in Procs :
        /\ p # q /\ seed = "empty" /\ ServedMatching
        /\ ~readonly[p] /\ skipcheck[p] = "False"
        /\ seen[p].digest = "differs"
        /\ dl[q].dest = "cache" /\ maybe_cached_file[p] = None
        /\ result[p] = "ok" /\ dl[p].dest = "out"
        /\ Delivered(p) = File(Good)

\* The file download_with_md5 of p names: output_folder/filename, output_folder
\* being the entry directory or p's output folder.
Downloaded(p) ==
    IF dl[p].dest = "cache" THEN cache[dl[p].name] ELSE out[p][dl[p].name]

\* C19 (fetcher leaves the file on mismatch): at the step in which
\* download_with_md5 has streamed its whole body, the file at
\* output_folder/filename is present and holds exactly the downloaded bytes,
\* whether the digests then mismatch (ValueError) or match (the filename is
\* returned), and a download into p's output folder has written no other
\* file there.
C19_FetcherLeavesFile ==
    [][\A p \in Procs :
          (~Streamed(p) /\ Streamed(p)') =>
              /\ Downloaded(p)' = File(dl'[p].body)
              /\ dl'[p].md5 # expected_md5 => result'[p] = "ValueError"
              /\ (dl'[p].md5 = expected_md5 /\ dl'[p].dest = "out") =>
                    (result'[p] = "ok" /\ ret'[p] = dl'[p].name)
              /\ dl'[p].dest = "out" =>
                    \A n \in Names :
                        out'[p][n].present => n = dl'[p].name]_vars

\* The errors of a network failure: session.get out of retries, and the
\* connection lost while the body is streamed.
FetchErrors == {"ConnectionError", "ChunkedEncodingError"}

\* C20 (bounded retry, then failure): the retries left stay within
\* 0..RetryTotal and never grow; a call ends with a network failure's error
\* only once its retries are used up, whether the failure came before or
\* while the body was streamed; and a call that ended, with the integrity
\* error or otherwise, takes no further step.
C20_BoundedRetry ==
    [][\A p \in Procs :
          /\ retry'[p] \in 0..RetryTotal /\ retry'[p] <= retry[p]
          /\ (pc[p] # "done" /\ pc'[p] = "done"
                 /\ result'[p] \in FetchErrors) => retry[p] = 0
          /\ pc[p] = "done" =>
                (pc'[p] = "done" /\ result'[p] = result[p]
                    /\ retry'[p] = retry[p] /\ dl'[p] = dl[p])]_vars

\* The steps p's call can still take, at most: the re-entrant frame probes,
\* digests and copies; the top-level frame before it probes, digests, checks
\* and makes two directories, fetches and writes the chunks left.
StepsLeft(p) ==
    IF pc[p] = "done" THEN 0
    ELSE IF pc[p] = "copy" THEN 1
    ELSE IF nested[p] THEN (IF pc[p] = "digest" THEN 2 ELSE 3)
    ELSE CASE pc[p] = "write" -> 4 + (Len(dl[p].body) - dl[p].pos)
           [] pc[p] = "fetch" -> 5 + BodyLen
           [] pc[p] = "cont_mkdir" -> 6 + BodyLen
           [] pc[p] = "cont_check" -> 7 + BodyLen
           [] pc[p] = "root_mkdir" -> 8 + BodyLen
           [] pc[p] = "root_check" -> 9 + BodyLen
           [] pc[p] = "digest" -> 10 + BodyLen
           [] pc[p] = "probe" -> 11 + BodyLen

\* This step is a step of p's call.
Stepped(p) == pc'[p] # pc[p] \/ dl'[p] # dl[p]

\* C21 (bounded re-entry): every step of a call lowers the number of steps
\* it can still take (so a call ends within 11 + BodyLen steps), and a call
\* that is over has returned a filename or raised an error; the re-entrant
\* frame, once entered, is never left for another frame: it only probes,
\* digests (skipcheck=False: it copies only after an equal digest), copies
\* or ends, it starts no download_with_md5, makes no directory and writes
\* nothing under the cache root.
C21_BoundedReentry ==
    [][\A p \in Procs :
          /\ Stepped(p) => StepsLeft(p)' < StepsLeft(p)
          /\ pc'[p] = "done" =>
                /\ result'[p] # None
                /\ result'[p] = "ok" <=> ret'[p] # None
          /\ nested[p] => nested'[p]
          /\ nested'[p] =>
                /\ pc'[p] \in {"probe", "digest", "copy", "done"}
                /\ pc'[p] = "copy" => seen'[p].digest = "equal"
          /\ (nested[p] /\ Stepped(p)) =>
                /\ dl'[p] = dl[p]
                /\ cache' = cache
                /\ fsVars' = fsVars]_vars

\* A re-entrant frame listed two files and ended the call with RuntimeError.
C21_Witness ==
    \E p \in Procs :
        /\ nested[p] /\ pc[p] = "done" /\ result[p] = "RuntimeError"
        /\ seen[p].state = "listed" /\ seen[p].count >= 2

\* The errors that end a download_with_md5: of the request, of the open, of
\* the digest comparison.
DownloadErrors == {"HTTPError", "OSError", "ValueError"}

\* C22 (at most one fetch per request): once a call has invoked
\* download_with_md5, that invocation is the only one: its destination,
\* filename and body never change and it never starts over; and when a
\* download into the cache entry fails, or the re-entrant serve after it
\* fails, the call is over with that failure, nothing returned and nothing
\* downloaded into output_folder.
C22_AtMostOneFetch ==
    [][\A p \in Procs :
          /\ dl[p].started =>
                /\ dl'[p].started
                /\ dl'[p].dest = dl[p].dest
                /\ dl'[p].name = dl[p].name
                /\ dl'[p].body = dl[p].body
                /\ dl'[p].pos >= dl[p].pos
                /\ pc'[p] # "fetch"
          /\ (dl'[p].dest = "cache" /\ result'[p] \notin {None, "ok"}) =>
                /\ pc'[p] = "done" /\ ret'[p] = None
                /\ out'[p] = EmptyDir
                /\ result'[p] \in
                      IF nested'[p] THEN {"RuntimeError"} ELSE DownloadErrors
          /\ result[p] # None =>
                (result'[p] = result[p] /\ pc'[p] = "done")]_vars

\* One call's download into the cache entry failed verification and another
\* call's re-entrant serve failed, and neither has downloaded anything into
\* its output folder.
C22_Witness ==
    \E p, q \in Procs :
        /\ dl[p].dest = "cache" /\ result[p] = "ValueError"
        /\ out[p] = EmptyDir
        /\ dl[q].dest = "cache" /\ nested[q] /\ result[q] = "RuntimeError"
        /\ out[q] = EmptyDir

\* No download is being written into the entry directory, and the directory
\* holds more than one entry or a single file whose MD5 is not expected_md5.
SettledUnusable ==
    /\ \A q \in Procs : pc[q] # "write"
    /\ \/ Cardinality(Present) >= 2
       \/ \E n \in Names :
             Present = {n} /\ FileDigest(cache[n].data) # expected_md5

\* C23 (unusable entries are permanent), for calls made one after another:
\* once the entry directory holds a mismatching file or more than one entry,
\* no step changes the directory or its files again, so it stays unusable
\* and never becomes a valid entry; and a call with readonly=False that
\* listed it and did not skip the check has, once over, invoked
\* download_with_md5 into output_folder.
C23_UnusableIsPermanent ==
    [][SettledUnusable =>
          /\ cache' = cache
          /\ fsVars' = fsVars
          /\ SettledUnusable' /\ ~ValidEntry'
          /\ \A p \in Procs :
                (/\ ~readonly[p] /\ skipcheck'[p] # "True"
                 /\ seen'[p].state = "listed" /\ seen'[p].count >= 1
                 /\ pc'[p] = "done") =>
                    /\ dl'[p].started /\ dl'[p].dest = "out"
                    /\ abort_caching'[p]]_vars

\* A download left a mismatching file in an entry directory that was empty,
\* and a later call, having computed its digest, returned an uncached
\* download, the file being still as it was left.
C23_Witness ==
    \E p, q \in Procs :
        /\ p # q /\ seed = "empty" /\ SettledUnusable
        /\ LeftMismatch(p)
        /\ ~readonly[q] /\ seen[q].digest = "differs"
        /\ result[q] = "ok" /\ dl[q].dest = "out"

=============================================================================
